---- MODULE Spec2Model ----
(***************************************************************************)
(* Model of libusb_device_manager (src/src/linkmasta/                      *)
(* libusb_device_manager.cpp): the registry of connected programmers, its  *)
(* two mutexes, the reconciliation pass refresh_device_list, the per-id    *)
(* accessors, claim/release and the destructor, run by concurrent threads, *)
(* and of the flash-chip controller ngp_chip (src/src/cartridge/           *)
(* ngp_chip.h) driving a simulated chip, run by one caller.                *)
(***************************************************************************)
EXTENDS Integers, Sequences, FiniteSets, TLC

\* ---------------------------------------------------------------- bounds
NumDevices == 3       \* native handles (libusb_device*) the bus can show
NumClients == 2       \* foreign caller threads
SectorSize == 2       \* words in one sector of the simulated chip
MaxCount == 2         \* most units one bulk transfer is asked for
MaxPolls == 1         \* most polls an erase of the simulated chip takes

\* ------------------------------------------------------------- constants
VID_7400 == 8352      \* 0x20A0
PID_NGP_LINKMASTA == 16760    \* 0x4178
PID_NGP_FLASHMASTA == 16982   \* 0x4256
PID_WS == 16978       \* 0x4252

NumSectors == 2       \* the simulated chip has two sectors
WordBits == 1         \* bits of a data_t / word_t the simulated chip keeps

Devices == 1 .. NumDevices
Ids == 0 .. NumDevices - 1        \* surrogate ids generate_id can hand out
Objects == 1 .. NumDevices        \* heap addresses of linkmasta objects

Clients == {<<"client", i>> : i \in 1 .. NumClients}
AutoRefresh == <<"refresh", 0>>   \* the background auto-refresh thread
DirectRefresh == <<"refresh", 1>> \* a thread calling refresh_device_list()
Refreshers == {AutoRefresh, DirectRefresh}
Dtor == <<"dtor", 0>>             \* the thread destroying the manager
NoThread == <<"none", 0>>
Threads == Clients \cup Refreshers \cup {Dtor}

\* The device descriptors (idVendor, idProduct) found on the bus, by handle:
\* an NGP link masta, a foreign vendor reusing a supported product id, a
\* WonderSwan flash masta, a new NGP flash masta, an unsupported 7400 product.
Descriptors ==
  << [idVendor |-> VID_7400, idProduct |-> PID_NGP_LINKMASTA],
     [idVendor |-> 4660,     idProduct |-> PID_NGP_LINKMASTA],
     [idVendor |-> VID_7400, idProduct |-> PID_WS],
     [idVendor |-> VID_7400, idProduct |-> PID_NGP_FLASHMASTA],
     [idVendor |-> VID_7400, idProduct |-> 16384] >>

\* libusb_get_device_descriptor(device_list[i], &desc)
libusb_get_device_descriptor(d) ==
  Descriptors[((d - 1) % Len(Descriptors)) + 1]

VARIABLES
  m_libusb_init,              \* bool m_libusb_init
  m_libusb_mutex,             \* owner of m_libusb_mutex, or NoThread
  m_connected_devices_mutex,  \* owner of m_connected_devices_mutex
  m_connected_devices,        \* map id -> connected_device
  heap,                       \* linkmasta objects that are alive
  refs,                       \* references the manager holds per handle
  auto_refresh,               \* the background refresh thread is enabled
  pc,                         \* position of every thread
  ret,                        \* what the call that just returned gave back
  locals,                     \* num_devices / device_list of a running pass
  wins,                       \* per id: try_claim calls that returned true
                              \* since the claimed flag was last false
  m_mode,                     \* ngp_chip::m_mode, the belief mode
  m_last_erased_addr,         \* ngp_chip::m_last_erased_addr
  m_supports_bypass,          \* ngp_chip::m_supports_bypass, once probed
  hw_mode,                    \* the mode the simulated chip is really in
  hw_busy,                    \* polls until its erase completes, 0 = idle
  hw_target,                  \* the addresses its running erase will clear
  hw_bypass,                  \* the simulated chip has a bypass mode
  flash,                      \* its stored words, by address
  chip_ret,                   \* what the controller call just made returned
  gui                         \* per caller: where it is in MainWindow's code,
                              \* the device_index / linkmasta it holds and
                              \* the parity of its turns in a claim loop

regvars == << m_libusb_init, m_libusb_mutex, m_connected_devices_mutex,
              m_connected_devices, heap, refs, auto_refresh, pc, ret,
              locals, wins >>

chipvars == << m_mode, m_last_erased_addr, m_supports_bypass, hw_mode,
               hw_busy, hw_target, hw_bypass, flash, chip_ret >>

vars == << regvars, chipvars, gui >>

\* caught: the catch block of the removal loop was entered in this pass.
NoLocals == [num_devices |-> 0, device_list |-> {}, caught |-> FALSE]
NoRet == [op |-> "none", id |-> 0, thrown |-> FALSE, val |-> "void"]

\* enum chip_mode
READ == "READ"
AUTOSELECT == "AUTOSELECT"
BYPASS == "BYPASS"
ERASE == "ERASE"
chip_mode == {READ, AUTOSELECT, BYPASS, ERASE}

\* data_t / word_t values and address_t values of the simulated chip.
Words == 0 .. 2^WordBits - 1
AllOnes == 2^WordBits - 1
Addresses == 0 .. NumSectors * SectorSize - 1
Never == MaxPolls + 2      \* hw_busy of an erase that will not complete

NoChipRet == [op |-> "none", val |-> "void"]

\* State after ngp_chip::ngp_chip(linkmasta_device, chip_num) over a
\* simulated chip with the stored words f.
ChipConstructed(bypass, f) ==
  /\ m_mode = READ
  /\ m_last_erased_addr = 0
  /\ m_supports_bypass = FALSE
  /\ hw_mode = READ
  /\ hw_busy = 0
  /\ hw_target = {}
  /\ hw_bypass = bypass
  /\ flash = f
  /\ chip_ret = NoChipRet

\* State after libusb_device_manager::libusb_device_manager()
ManagerConstructed ==
  /\ m_libusb_init = TRUE
  /\ m_libusb_mutex = NoThread
  /\ m_connected_devices_mutex = NoThread
  /\ m_connected_devices = << >>
  /\ heap = {}
  /\ refs = [d \in Devices |-> 0]
  /\ auto_refresh = TRUE
  /\ pc = [t \in Threads |-> "idle"]
  /\ ret = NoRet
  /\ locals = [r \in Refreshers |-> NoLocals]
  /\ wins = [id \in Ids |-> 0]

\* A caller that is in none of MainWindow's handlers.
NoHandler ==
  [at |-> "idle", device_index |-> 0, linkmasta |-> 0, turn |-> FALSE]

\* State after MainWindow::MainWindow(): the timer runs, no handler does.
MainWindowConstructed == gui = [c \in Clients |-> NoHandler]

\* The manager, with a controller that is constructed and left alone.
Init ==
  /\ ManagerConstructed
  /\ MainWindowConstructed
  /\ ChipConstructed(FALSE, [a \in Addresses |-> AllOnes])

\* ------------------------------------------------------- client operations
\* m_connected_devices.find(id) != m_connected_devices.end()
Found(devices, id) == id \in DOMAIN devices

\* The manager is usable until its destructor has run.
Destroyed == pc[Dtor] = "done"

\* m_connected_devices_mutex.lock(): the first statement of every operation
\* but try_get_connected_devices. The caller then runs one of them.
Call(c) ==
  /\ pc[c] = "idle"
  /\ ~Destroyed
  /\ m_connected_devices_mutex = NoThread
  /\ m_connected_devices_mutex' = c
  /\ pc' = [pc EXCEPT ![c] = "locked"]
  /\ ret' = NoRet
  /\ UNCHANGED << m_libusb_init, m_libusb_mutex, m_connected_devices, heap,
                  refs, auto_refresh, locals, wins,
                  chipvars, gui >>

\* m_connected_devices_mutex.unlock(); return val;
Return(c, o, id, val) ==
  /\ m_connected_devices_mutex' = NoThread
  /\ ret' = [op |-> o, id |-> id, thrown |-> FALSE, val |-> val]
  /\ pc' = [pc EXCEPT ![c] = "idle"]

\* Mutant: the not-found branch returns a default value instead of throwing.
Throw_NoThrow(c, o, id) ==
  /\ m_connected_devices_mutex' = NoThread
  /\ ret' = [op |-> o, id |-> id, thrown |-> FALSE, val |-> "void"]
  /\ pc' = [pc EXCEPT ![c] = "idle"]

\* Mutant: the not-found path throws without unlocking.
Throw_KeepLock(c, o, id) ==
  /\ m_connected_devices_mutex' = m_connected_devices_mutex
  /\ ret' = [op |-> o, id |-> id, thrown |-> TRUE,
             val |-> "invalid_argument"]
  /\ pc' = [pc EXCEPT ![c] = "idle"]

\* m_connected_devices_mutex.unlock(); throw std::invalid_argument(...)
Throw(c, o, id) ==
  /\ m_connected_devices_mutex' = NoThread
  /\ ret' = [op |-> o, id |-> id, thrown |-> TRUE,
             val |-> "invalid_argument"]
  /\ pc' = [pc EXCEPT ![c] = "idle"]

Untouched ==
  UNCHANGED << m_libusb_init, m_libusb_mutex, m_connected_devices, heap,
               refs, auto_refresh, locals, wins,
                  chipvars, gui >>

get_connected_devices(c) ==
  /\ pc[c] = "locked"
  /\ Return(c, "get_connected_devices", 0, DOMAIN m_connected_devices)
  /\ Untouched

\* Mutant: the list is built although try_lock() failed.
TryLockFailed_ListsAnyway(devices) ==
  [ok |-> TRUE, devices |-> DOMAIN devices]

\* else { return false; }: the caller's vector is not filled.
TryLockFailed(devices) == [ok |-> FALSE, devices |-> {}]

\* if (m_connected_devices_mutex.try_lock()) ... else return false;
try_get_connected_devices(c) ==
  /\ pc[c] = "idle"
  /\ ~Destroyed
  /\ IF m_connected_devices_mutex = NoThread
       THEN /\ m_connected_devices_mutex' = c
            /\ pc' = [pc EXCEPT ![c] = "try_locked"]
            /\ ret' = NoRet
       ELSE /\ ret' = [op |-> "try_get_connected_devices", id |-> 0,
                       thrown |-> FALSE,
                       val |-> TryLockFailed(m_connected_devices)]
            /\ UNCHANGED << m_connected_devices_mutex, pc >>
  /\ Untouched

\* devices.clear(); ... push_back(entry.first) ...; unlock; return true;
try_get_connected_devices_locked(c) ==
  /\ pc[c] = "try_locked"
  /\ Return(c, "try_get_connected_devices", 0,
            [ok |-> TRUE, devices |-> DOMAIN m_connected_devices])
  /\ Untouched

is_connected(c, id) ==
  /\ pc[c] = "locked"
  /\ Return(c, "is_connected", id, Found(m_connected_devices, id))
  /\ Untouched

\* The accessors share one shape: find, throw if absent, copy a member out.
Accessor(c, id, o, member) ==
  /\ pc[c] = "locked"
  /\ IF ~Found(m_connected_devices, id)
       THEN Throw(c, o, id)
       ELSE Return(c, o, id, m_connected_devices[id][member])
  /\ Untouched

get_vendor_id(c, id) == Accessor(c, id, "get_vendor_id", "vendor_id")
get_product_id(c, id) == Accessor(c, id, "get_product_id", "product_id")
get_manufacturer_string(c, id) ==
  Accessor(c, id, "get_manufacturer_string", "manufacturer_string")
get_product_string(c, id) ==
  Accessor(c, id, "get_product_string", "product_string")
get_serial_number(c, id) ==
  Accessor(c, id, "get_serial_number", "serial_number")
get_linkmasta_device(c, id) ==
  Accessor(c, id, "get_linkmasta_device", "linkmasta")
is_device_claimed(c, id) ==
  Accessor(c, id, "is_device_claimed", "claimed")

\* Mutant: try_claim_device reports success whatever the flag was.
TryClaimResult_Always(r) == TRUE

\* Mutant: try_claim_device returns the old flag, not its negation.
TryClaimResult_NotNegated(r) == r

\* auto r = it->second.claimed; ... return !r;
TryClaimResult(r) == ~r

\* Mutant: the flag is flipped instead of assigned.
SetClaimed_Toggle(devices, id, b) ==
  [devices EXCEPT ![id].claimed = ~devices[id].claimed]

\* Mutant: the flag is read but never written.
SetClaimed_Noop(devices, id, b) == devices

\* it->second.claimed = true / false
SetClaimed(devices, id, b) == [devices EXCEPT ![id].claimed = b]

try_claim_device(c, id) ==
  /\ pc[c] = "locked"
  /\ IF ~Found(m_connected_devices, id)
       THEN /\ Throw(c, "try_claim_device", id)
            /\ UNCHANGED << m_connected_devices, wins >>
       ELSE LET r == m_connected_devices[id].claimed
            IN  /\ m_connected_devices' =
                     SetClaimed(m_connected_devices, id, TRUE)
                /\ Return(c, "try_claim_device", id, TryClaimResult(r))
                /\ wins' = IF TryClaimResult(r)
                             THEN [wins EXCEPT ![id] = @ + 1]
                             ELSE wins
  /\ UNCHANGED << m_libusb_init, m_libusb_mutex, heap, refs,
                  auto_refresh, locals,
                  chipvars, gui >>

release_device(c, id) ==
  /\ pc[c] = "locked"
  /\ IF ~Found(m_connected_devices, id)
       THEN /\ Throw(c, "release_device", id)
            /\ UNCHANGED << m_connected_devices, wins >>
       ELSE /\ m_connected_devices' =
                 SetClaimed(m_connected_devices, id, FALSE)
            /\ Return(c, "release_device", id, "void")
            /\ wins' = [wins EXCEPT ![id] = 0]
  /\ UNCHANGED << m_libusb_init, m_libusb_mutex, heap, refs,
                  auto_refresh, locals,
                  chipvars, gui >>

\* ------------------------------------------------------ refresh_device_list
\* Mutant: the filter looks at the product id alone.
is_supported_ProductOnly(vendor_id, product_id) ==
  product_id \in {PID_NGP_LINKMASTA, PID_NGP_FLASHMASTA, PID_WS}

is_supported(vendor_id, product_id) ==
  \/ (vendor_id = VID_7400 /\ product_id = PID_NGP_LINKMASTA)
  \/ (vendor_id = VID_7400 /\ product_id = PID_NGP_FLASHMASTA)
  \/ (vendor_id = VID_7400 /\ product_id = PID_WS)

Min(S) == CHOOSE x \in S : \A y \in S : x <= y

\* Mutant: the lookup by handle never finds an entry.
Matches_None(devices, d) == {}

\* "See if we already know about the device": the entries, in map order,
\* whose device is the handle d; the loop stops at the first.
Matches(devices, d) == {id \in DOMAIN devices : devices[id].device = d}

\* The visible handles the pass deals with (num_devices < 0 runs no loop).
Supported(l) ==
  IF l.num_devices > 0
    THEN {d \in l.device_list :
            is_supported(libusb_get_device_descriptor(d).idVendor,
                         libusb_get_device_descriptor(d).idProduct)}
    ELSE {}

\* Mutant: a known device is found but its status is not set.
DeviceStatus_NeverSeen(devices, l) == [id \in DOMAIN devices |-> FALSE]

\* device_status after the enumeration loop, for the entries present when
\* the pass took the registry lock.
DeviceStatus(devices, l) ==
  [id \in DOMAIN devices |->
     \E d \in Supported(l) :
        Matches(devices, d) # {} /\ id = Min(Matches(devices, d))]

\* generate_id(): a surrogate id that is the key of no entry (the lowest).
generate_id(devices) == Min(Ids \ DOMAIN devices)

\* build_linkmasta_device(usb_device): a newly allocated object.
NewObject(h) == Min(Objects \ h)

\* connected_device new_device; ... new_device.claimed = false; ...
NewDevice(id, d, lm) ==
  [ id |-> id,
    vendor_id |-> libusb_get_device_descriptor(d).idVendor,
    product_id |-> libusb_get_device_descriptor(d).idProduct,
    manufacturer_string |-> <<"manufacturer", d>>,
    product_string |-> <<"product", d>>,
    serial_number |-> <<"serial", d>>,
    device |-> d,
    linkmasta |-> lm,
    claimed |-> FALSE ]

\* Mutant: the entry is stored under a key that is not its fresh id.
InsertDevice_FixedKey(devices, new_device) ==
  [id \in DOMAIN devices \cup {0} |->
     IF id = 0 THEN new_device ELSE devices[id]]

\* m_connected_devices[new_device.id] = new_device;
InsertDevice(devices, new_device) ==
  [id \in DOMAIN devices \cup {new_device.id} |->
     IF id = new_device.id THEN new_device ELSE devices[id]]

\* Mutant: the transport is destroyed but the entry is not erased.
EraseDevice_Keep(devices, id) == devices

\* m_connected_devices.erase(id)
EraseDevice(devices, id) == [i \in DOMAIN devices \ {id} |-> devices[i]]

\* The enumeration loop over device_list, on st = [devices, heap, refs]:
\* skip unsupported and known handles, create an entry for a new one.
RECURSIVE AddDevices(_, _)
AddDevices(st, todo) ==
  IF todo = {} THEN st
  ELSE LET d == Min(todo)
           desc == libusb_get_device_descriptor(d)
           lm == NewObject(st.heap)
           next ==
             IF ~is_supported(desc.idVendor, desc.idProduct) THEN st
             ELSE IF Matches(st.devices, d) # {} THEN st
             ELSE [ devices |->
                      InsertDevice(st.devices,
                        NewDevice(generate_id(st.devices), d, lm)),
                    heap |-> st.heap \cup {lm},
                    refs |-> [st.refs EXCEPT ![d] = @ + 1] ]
       IN  AddDevices(next, todo \ {d})

\* Mutant: the removal loop forgets the claimed flag.
Removable_IgnoringClaim(devices, status, id) == ~status[id]

\* "Remove devices that were not found, but only if they are not claimed"
Removable(devices, status, id) == ~status[id] /\ ~devices[id].claimed

\* Mutant: an exception from the delete ends the handling of the entry.
RemoveEntry_SkipOnThrow(st, id, threw) ==
  IF threw
    THEN [st EXCEPT !.heap = @ \ {st.devices[id].linkmasta}]
    ELSE [ devices |-> EraseDevice(st.devices, id),
           heap |-> st.heap \ {st.devices[id].linkmasta},
           refs |-> [st.refs EXCEPT ![st.devices[id].device] = @ - 1] ]

\* try { delete linkmasta; } catch (std::exception&) { } then
\* libusb_unref_device(device); m_connected_devices.erase(id): whether or
\* not the delete threw, the object is gone and the removal goes on.
RemoveEntry(st, id, threw) ==
  [ devices |-> EraseDevice(st.devices, id),
    heap |-> st.heap \ {st.devices[id].linkmasta},
    refs |-> [st.refs EXCEPT ![st.devices[id].device] = @ - 1] ]

\* The removal loop over device_status; throwers are the linkmasta objects
\* whose destruction raises a std::exception.
RECURSIVE RemoveDevices(_, _, _, _)
RemoveDevices(st, status, todo, throwers) ==
  IF todo = {} THEN st
  ELSE LET id == Min(todo)
           next ==
             IF Removable(st.devices, status, id)
               THEN RemoveEntry(st, id,
                                st.devices[id].linkmasta \in throwers)
               ELSE st
       IN  RemoveDevices(next, status, todo \ {id}, throwers)

\* The linkmasta objects a pass is going to delete.
Doomed(devices, l) ==
  {devices[id].linkmasta :
     id \in {i \in DOMAIN devices :
               Removable(devices, DeviceStatus(devices, l), i)}}

\* One whole pass over the registry, from the state st and the list l.
Reconcile(st, l, throwers) ==
  LET status == DeviceStatus(st.devices, l)
      added == AddDevices(st, IF l.num_devices > 0 THEN l.device_list
                              ELSE {})
  IN  RemoveDevices(added, status, DOMAIN status, throwers)

\* The handles a pass creates an entry for.
NewHandles(devices, l) == {d \in Supported(l) : Matches(devices, d) = {}}

\* Mutant: the pass does not take m_libusb_mutex.
refresh_device_list_lock_NoMutex(r) ==
  /\ pc[r] = "idle"
  /\ r = AutoRefresh => auto_refresh
  /\ pc' = [pc EXCEPT ![r] = "libusb_locked"]
  /\ ret' = NoRet
  /\ UNCHANGED << m_libusb_init, m_libusb_mutex, m_connected_devices_mutex,
                  m_connected_devices, heap, refs, auto_refresh, locals,
                  wins,
                  chipvars, gui >>

\* m_libusb_mutex.lock();
refresh_device_list_lock(r) ==
  /\ pc[r] = "idle"
  /\ r = AutoRefresh => auto_refresh
  /\ m_libusb_mutex = NoThread
  /\ m_libusb_mutex' = r
  /\ pc' = [pc EXCEPT ![r] = "libusb_locked"]
  /\ ret' = NoRet
  /\ UNCHANGED << m_libusb_init, m_connected_devices_mutex,
                  m_connected_devices, heap, refs, auto_refresh, locals,
                  wins,
                  chipvars, gui >>

\* num_devices = libusb_get_device_list(m_libusb, &device_list): the
\* handles b now on the bus, or a negative libusb error code and no list.
libusb_get_device_list(b) ==
  { [num_devices |-> Cardinality(b), device_list |-> b],
    [num_devices |-> -1, device_list |-> {}] }

\* if (!m_libusb_init) { unlock; return; } ... libusb_get_device_list(...)
refresh_device_list_enumerate(r) ==
  /\ pc[r] = "libusb_locked"
  /\ IF ~m_libusb_init
       THEN /\ m_libusb_mutex' = NoThread
            /\ pc' = [pc EXCEPT ![r] = "idle"]
            /\ UNCHANGED locals
       ELSE /\ \E b \in SUBSET Devices :
                 \E l \in libusb_get_device_list(b) :
                    locals' = [locals EXCEPT ![r] =
                                 [num_devices |-> l.num_devices,
                                  device_list |-> l.device_list,
                                  caught |-> FALSE]]
            /\ pc' = [pc EXCEPT ![r] = "enumerated"]
            /\ UNCHANGED m_libusb_mutex
  /\ ret' = NoRet
  /\ UNCHANGED << m_libusb_init, m_connected_devices_mutex,
                  m_connected_devices, heap, refs, auto_refresh, wins,
                  chipvars, gui >>

\* m_connected_devices_mutex.lock(); // LOCK m_connected_devices
refresh_device_list_lock_devices(r) ==
  /\ pc[r] = "enumerated"
  /\ m_connected_devices_mutex = NoThread
  /\ m_connected_devices_mutex' = r
  /\ pc' = [pc EXCEPT ![r] = "devices_locked"]
  /\ ret' = NoRet
  /\ UNCHANGED << m_libusb_init, m_libusb_mutex, m_connected_devices, heap,
                  refs, auto_refresh, locals, wins,
                  chipvars, gui >>

\* The pass itself, under both locks, up to the unlock of the registry.
refresh_device_list_reconcile(r) ==
  /\ pc[r] = "devices_locked"
  /\ \E throwers \in SUBSET Doomed(m_connected_devices, locals[r]) :
        LET st == Reconcile([devices |-> m_connected_devices,
                             heap |-> heap, refs |-> refs],
                            locals[r], throwers)
        IN  /\ m_connected_devices' = st.devices
            /\ heap' = st.heap
            /\ refs' = st.refs
            /\ wins' = [id \in Ids |->
                 IF id \in DOMAIN st.devices \ DOMAIN m_connected_devices
                   THEN 0 ELSE wins[id]]
            /\ locals' = [locals EXCEPT ![r].caught = throwers # {}]
  /\ m_connected_devices_mutex' = NoThread
  /\ pc' = [pc EXCEPT ![r] = "devices_unlocked"]
  /\ ret' = NoRet
  /\ UNCHANGED << m_libusb_init, m_libusb_mutex, auto_refresh,
                  chipvars, gui >>

\* libusb_free_device_list(device_list, 1); m_libusb_mutex.unlock();
refresh_device_list_free(r) ==
  /\ pc[r] = "devices_unlocked"
  /\ locals' = [locals EXCEPT ![r] = NoLocals]
  /\ m_libusb_mutex' = NoThread
  /\ pc' = [pc EXCEPT ![r] = "idle"]
  /\ ret' = NoRet
  /\ UNCHANGED << m_libusb_init, m_connected_devices_mutex,
                  m_connected_devices, heap, refs, auto_refresh, wins,
                  chipvars, gui >>

\* --------------------------------------------------------- the destructor
\* stop_auto_refresh_and_wait(): no further background pass starts and the
\* running one has finished.
stop_auto_refresh_and_wait ==
  /\ pc[Dtor] = "idle"
  /\ pc[AutoRefresh] = "idle"
  /\ auto_refresh' = FALSE
  /\ pc' = [pc EXCEPT ![Dtor] = "stopped"]
  /\ ret' = NoRet
  /\ UNCHANGED << m_libusb_init, m_libusb_mutex, m_connected_devices_mutex,
                  m_connected_devices, heap, refs, locals, wins,
                  chipvars, gui >>

\* m_libusb_mutex.lock();
dtor_lock_libusb ==
  /\ pc[Dtor] = "stopped"
  /\ m_libusb_mutex = NoThread
  /\ m_libusb_mutex' = Dtor
  /\ pc' = [pc EXCEPT ![Dtor] = "libusb_locked"]
  /\ ret' = NoRet
  /\ UNCHANGED << m_libusb_init, m_connected_devices_mutex,
                  m_connected_devices, heap, refs, auto_refresh, locals,
                  wins,
                  chipvars, gui >>

\* m_connected_devices_mutex.lock();
dtor_lock_devices ==
  /\ pc[Dtor] = "libusb_locked"
  /\ m_connected_devices_mutex = NoThread
  /\ m_connected_devices_mutex' = Dtor
  /\ pc' = [pc EXCEPT ![Dtor] = "devices_locked"]
  /\ ret' = NoRet
  /\ UNCHANGED << m_libusb_init, m_libusb_mutex, m_connected_devices, heap,
                  refs, auto_refresh, locals, wins,
                  chipvars, gui >>

\* for (auto entry : m_connected_devices) delete entry.second.linkmasta;
DestroyAll(devices, h) == h \ {devices[id].linkmasta : id \in DOMAIN devices}

\* for (auto entry : ...) libusb_unref_device(entry.second.device);
UnrefAll(devices, rf) ==
  [d \in Devices |->
     rf[d] - Cardinality({id \in DOMAIN devices : devices[id].device = d})]

\* Mutant: the destructor leaves m_libusb_init set.
dtor_destroy_KeepInit ==
  /\ pc[Dtor] = "devices_locked"
  /\ heap' = DestroyAll(m_connected_devices, heap)
  /\ refs' = UnrefAll(m_connected_devices, refs)
  /\ m_connected_devices_mutex' = NoThread
  /\ m_libusb_mutex' = NoThread
  /\ pc' = [pc EXCEPT ![Dtor] = "done"]
  /\ ret' = NoRet
  /\ UNCHANGED << m_libusb_init, m_connected_devices, auto_refresh, locals,
                  wins,
                  chipvars, gui >>

\* ... libusb_exit(m_libusb); m_libusb_init = false; unlock both mutexes.
dtor_destroy ==
  /\ pc[Dtor] = "devices_locked"
  /\ heap' = DestroyAll(m_connected_devices, heap)
  /\ refs' = UnrefAll(m_connected_devices, refs)
  /\ m_libusb_init' = FALSE
  /\ m_connected_devices_mutex' = NoThread
  /\ m_libusb_mutex' = NoThread
  /\ pc' = [pc EXCEPT ![Dtor] = "done"]
  /\ ret' = NoRet
  /\ UNCHANGED << m_connected_devices, auto_refresh, locals, wins,
                  chipvars, gui >>

\* ------------------------------------------------------ the specification
Next ==
  \/ \E c \in Clients : Call(c)
  \/ \E c \in Clients : get_connected_devices(c)
  \/ \E c \in Clients : try_get_connected_devices(c)
  \/ \E c \in Clients : try_get_connected_devices_locked(c)
  \/ \E c \in Clients, id \in Ids : is_connected(c, id)
  \/ \E c \in Clients, id \in Ids : get_vendor_id(c, id)
  \/ \E c \in Clients, id \in Ids : get_product_id(c, id)
  \/ \E c \in Clients, id \in Ids : get_manufacturer_string(c, id)
  \/ \E c \in Clients, id \in Ids : get_product_string(c, id)
  \/ \E c \in Clients, id \in Ids : get_serial_number(c, id)
  \/ \E c \in Clients, id \in Ids : get_linkmasta_device(c, id)
  \/ \E c \in Clients, id \in Ids : is_device_claimed(c, id)
  \/ \E c \in Clients, id \in Ids : try_claim_device(c, id)
  \/ \E c \in Clients, id \in Ids : release_device(c, id)
  \/ \E r \in Refreshers : refresh_device_list_lock(r)
  \/ \E r \in Refreshers : refresh_device_list_enumerate(r)
  \/ \E r \in Refreshers : refresh_device_list_lock_devices(r)
  \/ \E r \in Refreshers : refresh_device_list_reconcile(r)
  \/ \E r \in Refreshers : refresh_device_list_free(r)
  \/ stop_auto_refresh_and_wait
  \/ dtor_lock_libusb
  \/ dtor_lock_devices
  \/ dtor_destroy

Spec == Init /\ [][Next]_vars

\* ================================================== the chip controller
\* ngp_chip (src/src/cartridge/ngp_chip.h) over a simulated chip. One
\* caller at a time (the class is not thread-safe), one call per step.

\* v AND d over the n low bits.
RECURSIVE BitAnd(_, _, _)
BitAnd(v, d, n) ==
  IF n = 0 THEN 0
  ELSE (v % 2) * (d % 2) + 2 * BitAnd(v \div 2, d \div 2, n - 1)

\* The sector of an address, its addresses, and the sector base addresses.
SectorOf(a) == a \div SectorSize
SectorAddrs(a) == {x \in Addresses : SectorOf(x) = SectorOf(a)}
IsSectorBase(a) == a % SectorSize = 0

\* The block addresses erase_block is given: every sector base, and an
\* address inside a sector.
BlockAddresses == {a \in Addresses : IsSectorBase(a) \/ a = 1}

\* The progress sinks a bulk transfer is given: nullptr, or a task
\* controller that reports cancellation once k units are done, for a k up
\* to the units asked for (with k = num_bytes it never stops the transfer
\* early).
NoSink == -1
Sinks(num_bytes) == {NoSink} \cup (0 .. num_bytes)

\* controller != nullptr && controller->is_task_cancelled()
IsCancelled(k, done) == k # NoSink /\ done >= k

\* ---- the simulated chip
\* Mutant: the simulated chip stores the data word as it is.
HwProgram_Overwrite(f, a, d) == [f EXCEPT ![a] = d]

\* A program command: flash cells only go from 1 to 0.
HwProgram(f, a, d) == [f EXCEPT ![a] = BitAnd(f[a], d, WordBits)]

\* A finished erase: all bits of the target are 1.
HwErased(f, target) ==
  [a \in Addresses |-> IF a \in target THEN AllOnes ELSE f[a]]

\* What read(address) gives: the stored word when the chip is in an
\* array-read mode and not erasing, a status or metadata word otherwise.
NotData == -1
HwRead(f, mode, busy, a) ==
  IF busy = 0 /\ mode \in {READ, BYPASS} THEN f[a] ELSE NotData

\* ---- single operations
ChipReturn(o, val) == chip_ret' = [op |-> o, val |-> val]

\* Mutant: reset() leaves the belief mode as it was.
AfterReset_Unchanged(mode) == mode

\* reset(): "Causes the device to enter READ mode".
AfterReset(mode) == READ

\* reset(): the reset sequence; a running erase is waited out.
reset ==
  /\ m_mode' = AfterReset(m_mode)
  /\ hw_mode' = READ
  /\ hw_busy' = 0
  /\ hw_target' = {}
  /\ flash' = IF hw_busy \in 1 .. MaxPolls
                THEN HwErased(flash, hw_target) ELSE flash
  /\ ChipReturn("reset", "void")
  /\ UNCHANGED << m_last_erased_addr, m_supports_bypass, hw_bypass,
                  regvars, gui >>

\* Mutant: a query leaves the belief mode as it found it.
AfterAutoselect_Restore(mode) == mode

\* The three queries: "Causes the device to enter AUTOSELECT mode".
AfterAutoselect(mode) == AUTOSELECT

\* enter_autoselect() and the metadata read of the three queries.
Autoselect(o) ==
  /\ m_mode' = AfterAutoselect(m_mode)
  /\ hw_mode' = IF hw_busy = 0 THEN AUTOSELECT ELSE hw_mode
  /\ ChipReturn(o, IF hw_busy = 0 THEN "metadata" ELSE "undefined")
  /\ UNCHANGED << m_last_erased_addr, m_supports_bypass, hw_busy,
                  hw_target, hw_bypass, flash, regvars, gui >>

get_manufacturer_id == Autoselect("get_manufacturer_id")
get_device_id == Autoselect("get_device_id")
get_block_protection(sector_address) == Autoselect("get_block_protection")

\* Mutant: program_byte() called in BYPASS keeps the belief mode BYPASS.
AfterProgram_KeepBypass(mode) == IF mode = BYPASS THEN BYPASS ELSE READ

\* program_byte(): "Causes the device to enter READ mode".
AfterProgram(mode) == READ

\* program_byte(address, data): the program sequence (the short one in
\* BYPASS); a chip in bypass mode stays in it, a busy chip ignores it.
program_byte(address, data) ==
  /\ m_mode' = AfterProgram(m_mode)
  /\ hw_mode' = IF hw_busy = 0 /\ hw_mode # BYPASS THEN READ ELSE hw_mode
  /\ flash' = IF hw_busy = 0 THEN HwProgram(flash, address, data)
                             ELSE flash
  /\ ChipReturn("program_byte", "void")
  /\ UNCHANGED << m_last_erased_addr, m_supports_bypass, hw_busy,
                  hw_target, hw_bypass, regvars, gui >>

\* test_bypass_support(): probes the chip and remembers the answer.
test_bypass_support ==
  /\ m_supports_bypass' = hw_bypass
  /\ ChipReturn("test_bypass_support", hw_bypass)
  /\ UNCHANGED << m_mode, m_last_erased_addr, hw_mode, hw_busy, hw_target,
                  hw_bypass, flash, regvars, gui >>

\* supports_bypass() const
supports_bypass ==
  /\ ChipReturn("supports_bypass", m_supports_bypass)
  /\ UNCHANGED << m_mode, m_last_erased_addr, m_supports_bypass, hw_mode,
                  hw_busy, hw_target, hw_bypass, flash, regvars, gui >>

\* Mutant: unlock_bypass() sets the belief mode whatever the probe said.
AfterUnlock_Always(mode, supported) == BYPASS

\* The belief mode after unlock_bypass(), by the probed bypass support.
AfterUnlock(mode, supported) == IF supported THEN BYPASS ELSE mode

\* unlock_bypass(): does nothing on a chip probed not to support bypass,
\* "Causes the device to enter BYPASS mode" otherwise.
unlock_bypass ==
  /\ m_supports_bypass' = hw_bypass
  /\ m_mode' = AfterUnlock(m_mode, hw_bypass)
  /\ hw_mode' = IF hw_bypass /\ hw_busy = 0 THEN BYPASS ELSE hw_mode
  /\ ChipReturn("unlock_bypass", "void")
  /\ UNCHANGED << m_last_erased_addr, hw_busy, hw_target, hw_bypass, flash,
                  regvars, gui >>

\* The erase the simulated chip starts on a command it accepts: a whole
\* chip or a sector takes 1 .. MaxPolls polls; an address that is no sector
\* base starts nothing or starts an erase that never completes.
HwStartErase(target, valid) ==
  IF valid THEN {[busy |-> b, target |-> target] : b \in 1 .. MaxPolls}
  ELSE {[busy |-> 0, target |-> {}], [busy |-> Never, target |-> {}]}

\* The command sequence of erase_chip() / erase_block(): belief ERASE.
Erase(o, addr, target, valid) ==
  /\ m_mode' = ERASE
  /\ m_last_erased_addr' = addr
  /\ IF hw_busy = 0
       THEN \E e \in HwStartErase(target, valid) :
               /\ hw_busy' = e.busy
               /\ hw_target' = e.target
               /\ hw_mode' = READ
       ELSE UNCHANGED << hw_busy, hw_target, hw_mode >>
  /\ ChipReturn(o, "void")
  /\ UNCHANGED << m_supports_bypass, hw_bypass, flash, regvars, gui >>

erase_chip == Erase("erase_chip", 0, Addresses, TRUE)

erase_block(block_address) ==
  Erase("erase_block", block_address, SectorAddrs(block_address),
        IsSectorBase(block_address))

\* current_mode() const
current_mode ==
  /\ ChipReturn("current_mode", m_mode)
  /\ UNCHANGED << m_mode, m_last_erased_addr, m_supports_bypass, hw_mode,
                  hw_busy, hw_target, hw_bypass, flash, regvars, gui >>

\* is_erasing() const
is_erasing ==
  /\ ChipReturn("is_erasing", m_mode = ERASE)
  /\ UNCHANGED << m_mode, m_last_erased_addr, m_supports_bypass, hw_mode,
                  hw_busy, hw_target, hw_bypass, flash, regvars, gui >>

\* Mutant: a poll sets the belief mode to READ whatever it saw.
AfterPoll_AlwaysRead(mode, busy) == READ

\* The belief mode after a poll that found the chip busy or not.
AfterPoll(mode, busy) == IF busy = 0 THEN READ ELSE mode

\* test_erasing(): with belief ERASE, one completion poll of the chip; the
\* erase in the chip moves on by one poll's time and is done at 0.
test_erasing ==
  /\ IF m_mode # ERASE
       THEN /\ ChipReturn("test_erasing", FALSE)
            /\ UNCHANGED << m_mode, hw_busy, hw_target, flash >>
       ELSE /\ m_mode' = AfterPoll(m_mode, hw_busy)
            /\ ChipReturn("test_erasing", hw_busy # 0)
            /\ hw_busy' = IF hw_busy \in 1 .. MaxPolls THEN hw_busy - 1
                                                       ELSE hw_busy
            /\ flash' = IF hw_busy = 1 THEN HwErased(flash, hw_target)
                                       ELSE flash
            /\ hw_target' = IF hw_busy = 1 THEN {} ELSE hw_target
  /\ UNCHANGED << m_last_erased_addr, m_supports_bypass, hw_mode,
                  hw_bypass, regvars, gui >>

\* ---- bulk operations
\* Mutant: the transfer loop never asks the controller.
UnitsDone_NoCancel(done, n, k) == n

\* The transfer loop: before each unit the controller, if any, is asked
\* whether the task is cancelled; the result is the units done.
RECURSIVE UnitsDone(_, _, _)
UnitsDone(done, n, k) ==
  IF done >= n \/ IsCancelled(k, done) THEN done
  ELSE UnitsDone(done + 1, n, k)

\* Mutant: every unit goes to the first address.
UnitAddress_Fixed(address, i) == address

\* The address of unit i (from 0) of a transfer.
UnitAddress(address, i) == address + i

\* The words read_bytes stores into data[0 .. count-1].
ReadUnits(f, mode, busy, address, count) ==
  [i \in 1 .. count |-> HwRead(f, mode, busy, UnitAddress(address, i - 1))]

\* The first count units of data programmed one by one from st =
\* [flash, issued]: the flash then, and the program commands issued.
RECURSIVE ProgramUnits(_, _, _, _, _)
ProgramUnits(st, address, data, i, count) ==
  IF i >= count THEN st
  ELSE ProgramUnits(
         [flash |-> HwProgram(st.flash, UnitAddress(address, i),
                              data[i + 1]),
          issued |-> st.issued + 1],
         address, data, i + 1, count)

\* What a bulk operation returns (the transferred count), with the
\* arguments it was given and the units it issued to the transport.
BulkReturn(o, n, k, count, issued) ==
  chip_ret' = [op |-> o, n |-> n, k |-> k,
               val |-> [count |-> count, issued |-> issued]]

\* read_bytes(address, data, num_bytes, controller)
read_bytes(address, num_bytes, k) ==
  /\ address + num_bytes <= NumSectors * SectorSize
  /\ LET count == UnitsDone(0, num_bytes, k)
     IN  BulkReturn("read_bytes", num_bytes, k, count,
           Len(ReadUnits(flash, hw_mode, hw_busy, address, count)))
  /\ UNCHANGED << m_mode, m_last_erased_addr, m_supports_bypass, hw_mode,
                  hw_busy, hw_target, hw_bypass, flash, regvars, gui >>

\* program_bytes(address, data, num_bytes, controller): program_byte per
\* unit, or the short sequence per unit while in BYPASS.
program_bytes(address, data, num_bytes, k) ==
  /\ address + num_bytes <= NumSectors * SectorSize
  /\ LET count == UnitsDone(0, num_bytes, k)
         st == ProgramUnits([flash |-> flash, issued |-> 0], address,
                            data, 0, count)
     IN  /\ BulkReturn("program_bytes", num_bytes, k, count, st.issued)
         /\ flash' = IF hw_busy = 0 THEN st.flash ELSE flash
         /\ m_mode' = IF count = 0 \/ m_mode = BYPASS THEN m_mode ELSE READ
         /\ hw_mode' = IF count = 0 \/ hw_busy # 0 \/ hw_mode = BYPASS
                         THEN hw_mode ELSE READ
  /\ UNCHANGED << m_last_erased_addr, m_supports_bypass, hw_busy,
                  hw_target, hw_bypass, regvars, gui >>

\* ------------------------------------- the controller's specification
ChipInit ==
  /\ ManagerConstructed
  /\ MainWindowConstructed
  /\ \E bypass \in BOOLEAN, f \in [Addresses -> Words] :
        ChipConstructed(bypass, f)

\* The single operations, by a caller that makes no bulk transfer.
ChipNext ==
  \/ reset
  \/ get_manufacturer_id
  \/ get_device_id
  \/ \E a \in Addresses : get_block_protection(a)
  \/ \E a \in Addresses, d \in Words : program_byte(a, d)
  \/ test_bypass_support
  \/ supports_bypass
  \/ unlock_bypass
  \/ erase_chip
  \/ \E a \in BlockAddresses : erase_block(a)
  \/ current_mode
  \/ is_erasing
  \/ test_erasing

ChipSpec == ChipInit /\ [][ChipNext]_vars

\* The bulk transfers, by a caller that erases sectors, polls, programs
\* and reads (a transfer starts at a sector base and may run into the next
\* sector).
SectorBases == {a \in Addresses : IsSectorBase(a)}

BulkNext ==
  \/ \E a \in SectorBases : erase_block(a)
  \/ test_erasing
  \/ \E a \in Addresses, d \in Words : program_byte(a, d)
  \/ \E a \in SectorBases, n \in 0 .. MaxCount :
        \E k \in Sinks(n) : read_bytes(a, n, k)
  \/ \E a \in SectorBases, n \in 0 .. MaxCount :
        \E k \in Sinks(n), data \in [1 .. n -> Words] :
           program_bytes(a, data, n, k)

\* A chip without bypass mode, holding any words.
BulkInit ==
  /\ ManagerConstructed
  /\ MainWindowConstructed
  /\ \E f \in [Addresses -> Words] : ChipConstructed(FALSE, f)

BulkSpec == BulkInit /\ [][BulkNext]_vars

\* ===================================================== the main window
\* MainWindow (src/src/ui/qt/main_window.cpp) as a caller of the manager.
\* Every call into the manager locks m_connected_devices_mutex, does its
\* work and unlocks before it returns, so a call is one step that waits
\* for the mutex to be free. A caller runs one handler at a time: the
\* timer's refreshDeviceList_timeout or a triggerAction... slot.

\* What a task can end in: run_task returns (done, or cancelled by the
\* user), or restore_cartridge_game_data throws and run_task rethrows.
TaskOutcomes == {"success", "cancelled", "runtime_error", "exception"}

\* try { ... } catch (std::runtime_error& ex): the outcomes after which
\* the slot goes on to POST_ACTION.
Caught(outcome) == outcome # "exception"

\* The caller's handler moves to position at.
Goto(c, at) == gui' = [gui EXCEPT ![c].at = at, ![c].turn = FALSE]

\* std::invalid_argument leaves the slot: nothing in it catches.
LeaveHandler(c) == gui' = [gui EXCEPT ![c] = NoHandler]

\* Everything of the manager a call that only reads leaves alone.
ManagerUntouched ==
  UNCHANGED << regvars, chipvars >>

\* Everything a claim or release leaves alone.
ClaimUntouched ==
  UNCHANGED << m_libusb_init, m_libusb_mutex, m_connected_devices_mutex,
               heap, refs, auto_refresh, pc, ret, locals, chipvars >>

\* try_get_connected_devices(connected_devices) succeeded and device_id is
\* one of new_devices.
refreshDeviceList_timeout(c) ==
  /\ gui[c].at = "idle"
  /\ m_connected_devices_mutex = NoThread
  /\ \E device_id \in DOMAIN m_connected_devices :
       gui' = [gui EXCEPT ![c] = [at |-> "new_device",
                                  device_index |-> device_id,
                                  linkmasta |-> 0, turn |-> FALSE]]
  /\ ManagerUntouched

\* linkmasta_device* linkmasta = ...get_linkmasta_device(device_id);
refreshDeviceList_get_linkmasta(c) ==
  /\ gui[c].at = "new_device"
  /\ m_connected_devices_mutex = NoThread
  /\ IF Found(m_connected_devices, gui[c].device_index)
       THEN gui' = [gui EXCEPT
                      ![c].at = "new_device_use",
                      ![c].linkmasta =
                        m_connected_devices[gui[c].device_index].linkmasta]
       ELSE LeaveHandler(c)
  /\ ManagerUntouched

\* switch (linkmasta->system()) ... linkmasta->is_integrated_with_cartridge()
\* then m_device_ids.push_back(device_id) and the widget; m_timer.start(10).
refreshDeviceList_use_linkmasta(c) ==
  /\ gui[c].at = "new_device_use"
  /\ LeaveHandler(c)
  /\ ManagerUntouched

\* PRE_ACTION with device_index the selected device, into
\* buildCartridgeForDevice: linkmasta = get_linkmasta_device(id).
triggerAction(c, device_index) ==
  /\ gui[c].at = "idle"
  /\ m_connected_devices_mutex = NoThread
  /\ IF Found(m_connected_devices, device_index)
       THEN gui' = [gui EXCEPT ![c] =
                      [at |-> "build_product",
                       device_index |-> device_index,
                       linkmasta |->
                         m_connected_devices[device_index].linkmasta,
                       turn |-> FALSE]]
       ELSE LeaveHandler(c)
  /\ ManagerUntouched

\* switch (get_product_id(id)) { ... cart = new ngp_cartridge(linkmasta) }
buildCartridgeForDevice_product(c) ==
  /\ gui[c].at = "build_product"
  /\ m_connected_devices_mutex = NoThread
  /\ IF Found(m_connected_devices, gui[c].device_index)
       THEN Goto(c, "build_claim")
       ELSE LeaveHandler(c)
  /\ ManagerUntouched

\* One turn of while (!try_claim_device(id)); at position from: the loop
\* ends with the claim (position to) or with the exception of an unknown
\* id; a turn that finds the flag set is followed by another turn.
SpinClaim(c, from, to) ==
  /\ gui[c].at = from
  /\ m_connected_devices_mutex = NoThread
  /\ LET id == gui[c].device_index
     IN  IF ~Found(m_connected_devices, id)
           THEN /\ LeaveHandler(c)
                /\ UNCHANGED << m_connected_devices, wins >>
           ELSE LET r == m_connected_devices[id].claimed
                IN  /\ m_connected_devices' =
                         SetClaimed(m_connected_devices, id, TRUE)
                    /\ wins' = IF TryClaimResult(r)
                                 THEN [wins EXCEPT ![id] = @ + 1]
                                 ELSE wins
                    /\ IF TryClaimResult(r)
                         THEN Goto(c, to)
                         ELSE gui' = [gui EXCEPT ![c].turn = ~@]
  /\ ClaimUntouched

\* release_device(device_index), then position to.
ReleaseClaim(c, from, to) ==
  /\ gui[c].at = from
  /\ m_connected_devices_mutex = NoThread
  /\ LET id == gui[c].device_index
     IN  IF ~Found(m_connected_devices, id)
           THEN /\ LeaveHandler(c)
                /\ UNCHANGED << m_connected_devices, wins >>
           ELSE /\ m_connected_devices' =
                     SetClaimed(m_connected_devices, id, FALSE)
                /\ wins' = [wins EXCEPT ![id] = 0]
                /\ IF to = "idle" THEN LeaveHandler(c) ELSE Goto(c, to)
  /\ ClaimUntouched

\* while (!try_claim_device(id)); in buildCartridgeForDevice
buildCartridgeForDevice_claim(c) == SpinClaim(c, "build_claim", "build_init")

\* cart->init(); release_device(id); return cart;
buildCartridgeForDevice_init(c) ==
  ReleaseClaim(c, "build_init", "pre_claim")

\* while (!try_claim_device(device_index)); in PRE_ACTION
PRE_ACTION_claim(c) == SpinClaim(c, "pre_claim", "task")

\* try { ...Task(this, cart).go(); } catch (std::runtime_error& ex) {...}
\* An outcome the slot does not catch leaves the slot at once.
run_task(c, outcomes) ==
  /\ gui[c].at = "task"
  /\ \E outcome \in outcomes :
       IF Caught(outcome) THEN Goto(c, "post") ELSE LeaveHandler(c)
  /\ ManagerUntouched

\* POST_ACTION: release_device(device_index); delete cart;
POST_ACTION(c) == ReleaseClaim(c, "post", "idle")

\* The positions at which the handler uses the transport through the
\* pointer it holds: linkmasta->system(), cart->init(), the task.
UsesLinkmasta(c) == gui[c].at \in {"new_device_use", "build_init", "task"}

\* The positions inside a claim loop.
Spinning(c) == gui[c].at \in {"build_claim", "pre_claim"}

\* The steps of a slot up to its task.
ActionStep(c) ==
  \/ \E id \in Ids : triggerAction(c, id)
  \/ buildCartridgeForDevice_product(c)
  \/ buildCartridgeForDevice_claim(c)
  \/ buildCartridgeForDevice_init(c)
  \/ PRE_ACTION_claim(c)
  \/ POST_ACTION(c)

\* The background pass of the manager.
AutoRefreshStep ==
  \/ refresh_device_list_lock(AutoRefresh)
  \/ refresh_device_list_enumerate(AutoRefresh)
  \/ refresh_device_list_lock_devices(AutoRefresh)
  \/ refresh_device_list_reconcile(AutoRefresh)
  \/ refresh_device_list_free(AutoRefresh)

\* The main window's callers beside the background pass.
GuiNext ==
  \/ \E c \in Clients : refreshDeviceList_timeout(c)
  \/ \E c \in Clients : refreshDeviceList_get_linkmasta(c)
  \/ \E c \in Clients : refreshDeviceList_use_linkmasta(c)
  \/ \E c \in Clients, id \in Ids : triggerAction(c, id)
  \/ \E c \in Clients : buildCartridgeForDevice_product(c)
  \/ \E c \in Clients : buildCartridgeForDevice_claim(c)
  \/ \E c \in Clients : buildCartridgeForDevice_init(c)
  \/ \E c \in Clients : PRE_ACTION_claim(c)
  \/ \E c \in Clients : run_task(c, TaskOutcomes)
  \/ \E c \in Clients : POST_ACTION(c)
  \/ refresh_device_list_lock(AutoRefresh)
  \/ refresh_device_list_enumerate(AutoRefresh)
  \/ refresh_device_list_lock_devices(AutoRefresh)
  \/ refresh_device_list_reconcile(AutoRefresh)
  \/ refresh_device_list_free(AutoRefresh)

GuiSpec == Init /\ [][GuiNext]_vars

\* The outcomes of a task after which the slot goes on to POST_ACTION.
CaughtOutcomes == {outcome \in TaskOutcomes : Caught(outcome)}

\* What one caller can do next in a slot whose task the slot survives.
SlotStep(c) == ActionStep(c) \/ run_task(c, CaughtOutcomes)

\* Callers that run slot after slot, every holder of a claim releasing it,
\* beside the background pass.
ClaimNext ==
  \/ \E c \in Clients : ActionStep(c)
  \/ \E c \in Clients : run_task(c, CaughtOutcomes)
  \/ AutoRefreshStep

\* Fair scheduling of threads and fair locks: a caller that can again and
\* again take a step (a call that finds m_connected_devices_mutex free, a
\* lost turn of a claim loop included) takes steps again and again, and
\* the background pass goes on whenever it can.
ClaimFairSpec ==
  /\ Init
  /\ [][ClaimNext]_vars
  /\ \A c \in Clients : SF_vars(SlotStep(c))
  /\ WF_vars(AutoRefreshStep)

\* ================================================================ claims
AllowList == { <<8352, 16760>>, <<8352, 16982>>, <<8352, 16978>> }

\* The (vendor, product) pair of a native handle.
PairOf(d) == << libusb_get_device_descriptor(d).idVendor,
                libusb_get_device_descriptor(d).idProduct >>

\* The step in which thread r runs its pass over the registry.
PassBy(r) == pc[r] = "devices_locked" /\ pc'[r] = "devices_unlocked"

\* Thread r has finished a pass and still holds its device list.
PassDone(r) == pc[r] = "devices_unlocked"

\* The handles pass r enumerated (none when the enumeration failed).
Enumerated(r) ==
  IF locals[r].num_devices > 0 THEN locals[r].device_list ELSE {}

\* C1: no reconciliation pass removes or alters a registry entry whose
\* claimed flag is true, whether or not its device is in the enumeration.
C1_ClaimedSurvivesPass ==
  [][\A r \in Refreshers : PassBy(r) =>
       \A id \in DOMAIN m_connected_devices :
          m_connected_devices[id].claimed =>
             /\ id \in DOMAIN m_connected_devices'
             /\ m_connected_devices'[id] = m_connected_devices[id]]_vars

\* A pass has just ended that did not see the device of a claimed entry,
\* and the entry is still there.
C1_Witness ==
  \E r \in Refreshers : PassDone(r) /\
     \E id \in DOMAIN m_connected_devices :
        /\ m_connected_devices[id].claimed
        /\ m_connected_devices[id].device \notin Enumerated(r)

\* C2: between two moments at which an id's claimed flag is false, exactly
\* one try_claim_device call on it returns true however the callers and the
\* passes interleave: the calls that returned true since the flag was last
\* false number one while the flag is set, and none otherwise.
C2_ExactlyOneWinner ==
  \A id \in Ids :
     wins[id] = IF id \in DOMAIN m_connected_devices
                   /\ m_connected_devices[id].claimed THEN 1 ELSE 0

\* A try_claim_device call has just returned false on an id another call
\* had won.
C2_Witness ==
  /\ ret.op = "try_claim_device" /\ ~ret.thrown /\ ret.val = FALSE
  /\ wins[ret.id] = 1

\* C3: the linkmasta object of a claimed entry is alive in every reachable
\* state, the destructor's included.
C3_ClaimedTransportAlive ==
  \A id \in DOMAIN m_connected_devices :
     m_connected_devices[id].claimed =>
        m_connected_devices[id].linkmasta \in heap

\* The per-id operations of the manager.
PerIdOps == { "get_vendor_id", "get_product_id", "get_manufacturer_string",
              "get_product_string", "get_serial_number",
              "get_linkmasta_device", "is_device_claimed",
              "try_claim_device", "release_device" }

\* C4: on an id that is no key of the registry every per-id operation throws
\* the not-found error and is_connected returns false; the registry stays
\* as it was (no entry appears for that id).
C4_UnknownIdNotFound ==
  [][(ret' # NoRet /\ ret'.id \notin DOMAIN m_connected_devices) =>
       /\ ret'.op \in PerIdOps =>
             ret'.thrown /\ ret'.val = "invalid_argument"
       /\ ret'.op = "is_connected" => (~ret'.thrown /\ ret'.val = FALSE)
       /\ ret'.op \in PerIdOps \cup {"is_connected"} =>
             m_connected_devices' = m_connected_devices]_vars

\* A claim on an unregistered id has just failed while an entry exists.
C4_Witness ==
  /\ ret.op = "try_claim_device" /\ ret.thrown
  /\ ret.id \notin DOMAIN m_connected_devices
  /\ m_connected_devices # << >>

\* C5: after a pass that enumerated the bus, a second pass over the same
\* set of visible devices, with no claim or release in between, leaves the
\* registry, the transports and the handle references as they are.
C5_PassIdempotent ==
  [][\A r \in Refreshers : (PassBy(r) /\ locals[r].num_devices >= 0) =>
       LET after == [devices |-> m_connected_devices', heap |-> heap',
                     refs |-> refs']
       IN  \A l \in libusb_get_device_list(locals[r].device_list) :
              Reconcile(after, l, {}) = after]_vars

\* C6: every entry carries an allow-listed (vendor, product) pair, that of
\* its own device, and the id lists returned hold registry ids only.
C6_OnlySupportedRegistered ==
  /\ \A id \in DOMAIN m_connected_devices :
        /\ << m_connected_devices[id].vendor_id,
              m_connected_devices[id].product_id >> \in AllowList
        /\ PairOf(m_connected_devices[id].device) \in AllowList
  /\ (ret.op = "get_connected_devices" =>
        ret.val = DOMAIN m_connected_devices)
  /\ ((ret.op = "try_get_connected_devices" /\ ret.val.ok) =>
        ret.val.devices = DOMAIN m_connected_devices)

\* A pass has just ended whose enumeration held a device off the allow-list.
C6_Witness ==
  \E r \in Refreshers : PassDone(r) /\
     \E d \in Enumerated(r) : PairOf(d) \notin AllowList

\* C7: the ids a pass allocates are not keys of the registry it found, so
\* every handle met for the first time gets a key of its own and no entry
\* that stays is overwritten.
C7_FreshIdNoOverwrite ==
  [][\A r \in Refreshers : PassBy(r) =>
       /\ Cardinality(DOMAIN m_connected_devices'
                        \ DOMAIN m_connected_devices)
            = Cardinality(NewHandles(m_connected_devices, locals[r]))
       /\ \A id \in DOMAIN m_connected_devices
                      \cap DOMAIN m_connected_devices' :
             m_connected_devices'[id] = m_connected_devices[id]]_vars

\* A pass has just ended that left a claimed orphan beside the entry of a
\* device it enumerated.
C7_Witness ==
  \E r \in Refreshers : PassDone(r) /\
     \E i, j \in DOMAIN m_connected_devices :
        /\ i # j
        /\ m_connected_devices[i].claimed
        /\ m_connected_devices[i].device \notin Enumerated(r)
        /\ m_connected_devices[j].device \in Enumerated(r)

\* C8: at the end of a pass every allow-listed device of its enumeration
\* is the native handle of exactly one entry.
C8_OneEntryPerVisibleDevice ==
  [][\A r \in Refreshers : PassBy(r) =>
       \A d \in Enumerated(r) :
          PairOf(d) \in AllowList =>
             Cardinality({id \in DOMAIN m_connected_devices' :
                            m_connected_devices'[id].device = d}) = 1]_vars

\* A pass has just ended with two supported devices enumerated, one of them
\* claimed.
C8_Witness ==
  \E r \in Refreshers : PassDone(r) /\
     \E i, j \in DOMAIN m_connected_devices :
        /\ i # j
        /\ m_connected_devices[i].device \in Enumerated(r)
        /\ m_connected_devices[j].device \in Enumerated(r)
        /\ m_connected_devices[i].claimed

\* C9: try_claim_device on a registered id returns true exactly when the
\* flag was false before the call and leaves it true; an entry a pass has
\* just created is unclaimed, so the first claim on it succeeds.
C9_TryClaimTestAndSet ==
  [][/\ (ret'.op = "try_claim_device"
           /\ ret'.id \in DOMAIN m_connected_devices) =>
          /\ ~ret'.thrown
          /\ ret'.val = ~m_connected_devices[ret'.id].claimed
          /\ m_connected_devices' =
               [m_connected_devices EXCEPT ![ret'.id].claimed = TRUE]
     /\ \A r \in Refreshers : PassBy(r) =>
          \A id \in DOMAIN m_connected_devices'
                      \ DOMAIN m_connected_devices :
             ~m_connected_devices'[id].claimed]_vars

\* A try_claim_device call has just returned true.
C9_Witness ==
  /\ ret.op = "try_claim_device" /\ ~ret.thrown /\ ret.val = TRUE
  /\ m_connected_devices[ret.id].claimed

\* C10: release_device on a registered id, claimed or not, leaves the flag
\* false and all else as it was and does not throw; it throws only on an id
\* that is not registered.
C10_ReleaseIdempotent ==
  [][ret'.op = "release_device" =>
       /\ heap' = heap /\ refs' = refs
       /\ IF ret'.id \in DOMAIN m_connected_devices
            THEN /\ ~ret'.thrown
                 /\ m_connected_devices' =
                      [m_connected_devices EXCEPT ![ret'.id].claimed = FALSE]
            ELSE /\ ret'.thrown
                 /\ m_connected_devices' = m_connected_devices]_vars

\* A release has just returned normally and no entry is claimed.
C10_Witness ==
  /\ ret.op = "release_device" /\ ~ret.thrown
  /\ ~m_connected_devices[ret.id].claimed

\* C11: a pass removes every entry it finds unclaimed whose device it did
\* not enumerate, a released orphan included: the entry is erased, its
\* transport destroyed and its handle reference dropped, and is_connected
\* on the id then answers false.
C11_ReleasedOrphanRetired ==
  [][/\ \A r \in Refreshers : PassBy(r) =>
          \A id \in DOMAIN m_connected_devices :
             (/\ ~m_connected_devices[id].claimed
              /\ m_connected_devices[id].device \notin Enumerated(r)) =>
                /\ id \notin DOMAIN m_connected_devices'
                /\ m_connected_devices[id].linkmasta \notin heap'
                /\ refs'[m_connected_devices[id].device] =
                     refs[m_connected_devices[id].device] - 1
     /\ (ret'.op = "is_connected"
           /\ ret'.id \notin DOMAIN m_connected_devices) =>
          ret'.val = FALSE]_vars

\* The last pass kept an entry whose device it did not enumerate (it was
\* claimed then), and a caller has released that entry since: the pass to
\* come finds a released orphan.
C11_Witness ==
  /\ ret.op = "release_device" /\ ~ret.thrown
  /\ \E r \in Refreshers : PassDone(r) /\
        m_connected_devices[ret.id].device \notin Enumerated(r)

\* C12: try_get_connected_devices never waits for the registry lock: it can
\* always take its step; while another thread holds the lock it returns
\* false with no list and changes nothing, and a true return carries the
\* keys the registry had while the caller held the lock.
C12_TryGetNeverWaits ==
  /\ [](\A c \in Clients : (pc[c] = "idle" /\ ~Destroyed) =>
          ENABLED try_get_connected_devices(c))
  /\ [][/\ ret'.op = "try_get_connected_devices" =>
             IF ret'.val.ok
               THEN /\ m_connected_devices_mutex \in Clients
                    /\ pc[m_connected_devices_mutex] = "try_locked"
                    /\ ret'.val.devices = DOMAIN m_connected_devices
               ELSE /\ m_connected_devices_mutex # NoThread
                    /\ ret'.val.devices = {}
                    /\ pc' = pc
                    /\ m_connected_devices_mutex' =
                         m_connected_devices_mutex
        /\ \A c \in Clients :
              (pc[c] = "idle" /\ pc'[c] = "try_locked") =>
                 m_connected_devices_mutex = NoThread]_vars

\* try_get_connected_devices has just returned false while a pass holds the
\* registry lock.
C12_Witness ==
  /\ ret.op = "try_get_connected_devices" /\ ~ret.val.ok
  /\ m_connected_devices_mutex \in Refreshers
  /\ pc[m_connected_devices_mutex] = "devices_locked"

\* Thread r is between m_libusb_mutex.lock() and m_libusb_mutex.unlock().
InPass(r) ==
  pc[r] \in {"libusb_locked", "enumerated", "devices_locked",
             "devices_unlocked"}

\* C13: at most one refresh_device_list invocation at a time is between
\* taking and releasing m_libusb_mutex, and it is the owner of that mutex;
\* the one reconciling the registry also owns the registry mutex.
C13_PassesSerialized ==
  /\ \A r1, r2 \in Refreshers : (InPass(r1) /\ InPass(r2)) => r1 = r2
  /\ \A r \in Refreshers : InPass(r) => m_libusb_mutex = r
  /\ \A r \in Refreshers :
        pc[r] = "devices_locked" => m_connected_devices_mutex = r

\* The direct caller is reconciling a registry the background thread
\* filled, while the background thread is free to start its next pass.
C13_Witness ==
  /\ pc[DirectRefresh] = "devices_locked"
  /\ pc[AutoRefresh] = "idle" /\ auto_refresh
  /\ m_connected_devices # << >>

\* The destructor has taken m_libusb_mutex: teardown has begun.
TeardownBegun == pc[Dtor] \in {"libusb_locked", "devices_locked", "done"}

\* C14: once the destructor holds (or has held) m_libusb_mutex, no
\* refresh_device_list call gets past its m_libusb_init test: none
\* enumerates, none is inside a pass, and the registry and the
\* transports are not changed by any of them.
C14_NoPassAfterTeardown ==
  [][TeardownBegun =>
       \A r \in Refreshers :
          /\ pc[r] \in {"idle", "libusb_locked"}
          /\ pc'[r] \in {"idle", "libusb_locked"}
          /\ locals'[r] = locals[r]
          /\ pc'[r] # pc[r] =>
               /\ m_connected_devices' = m_connected_devices
               /\ heap' = heap /\ refs' = refs]_vars

\* A direct refresh_device_list call holds m_libusb_mutex after the
\* destructor has run over a registry that had an entry.
C14_Witness ==
  /\ Destroyed
  /\ pc[DirectRefresh] = "libusb_locked"
  /\ m_connected_devices # << >>

\* C15: at no instant have two try_claim_device calls on one id returned
\* true without a release_device in between.
C15_AtMostOneOwner == \A id \in Ids : wins[id] <= 1

\* Two entries are each owned by one caller and a further claim has just
\* been refused.
C15_Witness ==
  /\ ret.op = "try_claim_device" /\ ~ret.thrown /\ ret.val = FALSE
  /\ \E i, j \in DOMAIN m_connected_devices :
        i # j /\ wins[i] = 1 /\ wins[j] = 1

\* C16: a bulk transfer of n units given a controller that cancels after
\* unit k (0 <= k <= n) returns k, has issued k units to the transport,
\* and raises nothing; given no controller it returns n.
C16_CancelledCountExact ==
  chip_ret.op \in {"read_bytes", "program_bytes"} =>
     /\ chip_ret.val.count =
          IF chip_ret.k = NoSink THEN chip_ret.n ELSE chip_ret.k
     /\ chip_ret.val.issued = chip_ret.val.count

\* program_bytes has just been cancelled part of the way through.
C16_Witness ==
  /\ chip_ret.op = "program_bytes"
  /\ chip_ret.n = MaxCount
  /\ chip_ret.k > 0 /\ chip_ret.k < chip_ret.n
  /\ chip_ret.val.count = chip_ret.k

\* C17: erase_chip and erase_block leave the belief mode at ERASE;
\* is_erasing and current_mode report the belief mode and change neither it
\* nor the chip; a test_erasing call made in ERASE leaves READ exactly when
\* its poll finds the erase complete, and ERASE otherwise.
C17_EraseBeliefUntilPolled ==
  [][/\ chip_ret'.op \in {"erase_chip", "erase_block"} => m_mode' = ERASE
     /\ chip_ret'.op \in {"is_erasing", "current_mode"} =>
          /\ UNCHANGED << m_mode, m_last_erased_addr, m_supports_bypass,
                          hw_mode, hw_busy, hw_target, hw_bypass, flash >>
          /\ chip_ret'.val = IF chip_ret'.op = "is_erasing"
                               THEN m_mode = ERASE ELSE m_mode
     /\ (chip_ret'.op = "test_erasing" /\ m_mode = ERASE) =>
          /\ m_mode' = IF hw_busy = 0 THEN READ ELSE ERASE
          /\ chip_ret'.val = (hw_busy # 0)]_vars

\* A poll has just found the erase still running: the belief mode is
\* ERASE although the chip has finished since.
C17_Witness ==
  /\ chip_ret.op = "test_erasing" /\ chip_ret.val = TRUE
  /\ m_mode = ERASE
  /\ hw_busy = 0

SectorErased(f, a) == \A x \in SectorAddrs(a) : f[x] = AllOnes

\* C19: erase_block at a sector base on an idle chip starts the erase of
\* that sector, and the poll in which it completes leaves every word of
\* the sector erased and the chip idle; on an erased sector with belief
\* READ and the chip idle, program_bytes at the sector base with no
\* cancellation returns n, and read_bytes over the same range then gives
\* n units that are the data, for every data sequence that fits in the
\* sector.
C19_EraseProgramReadRoundTrip ==
  [][/\ (chip_ret'.op = "erase_block" /\ hw_busy = 0
            /\ IsSectorBase(m_last_erased_addr')) =>
          /\ hw_target' = SectorAddrs(m_last_erased_addr')
          /\ hw_busy' \in 1 .. MaxPolls
     /\ (chip_ret'.op = "test_erasing" /\ m_mode = ERASE /\ hw_busy = 1) =>
          /\ \A x \in hw_target : flash'[x] = AllOnes
          /\ hw_busy' = 0 /\ hw_mode' = READ
     /\ (/\ chip_ret'.op = "program_bytes"
         /\ chip_ret'.k = NoSink
         /\ chip_ret'.n <= SectorSize
         /\ m_mode = READ /\ hw_mode = READ /\ hw_busy = 0) =>
          \A a \in {b \in SectorBases : SectorErased(flash, b)} :
             \A data \in [1 .. chip_ret'.n -> Words] :
                program_bytes(a, data, chip_ret'.n, NoSink) =>
                   /\ chip_ret'.val.count = chip_ret'.n
                   /\ UnitsDone(0, chip_ret'.n, NoSink) = chip_ret'.n
                   /\ ReadUnits(flash', hw_mode', hw_busy', a,
                                chip_ret'.n) = data]_vars

\* After erase_block on the second sector, program_bytes has just written
\* a full transfer there, with a 0 word at the base.
C19_Witness ==
  /\ chip_ret.op = "program_bytes"
  /\ chip_ret.k = NoSink
  /\ chip_ret.n > 0 /\ chip_ret.val.count = chip_ret.n
  /\ m_last_erased_addr = SectorSize
  /\ m_mode = READ /\ hw_busy = 0
  /\ flash[SectorSize] = 0
  /\ \A x \in SectorAddrs(0) : flash[x] = AllOnes

\* C20: reset leaves the belief mode at READ, whatever it was.
C20_ResetLeavesRead ==
  [][chip_ret'.op = "reset" => m_mode' = READ]_vars

\* reset has just returned on a controller that had unlocked bypass and
\* sent a block erase.
C20_Witness ==
  /\ chip_ret.op = "reset"
  /\ m_mode = READ
  /\ m_supports_bypass
  /\ m_last_erased_addr # 0

C22_UnlockBypassBySupport ==
  [][chip_ret'.op = "unlock_bypass" =>
       /\ m_supports_bypass' = hw_bypass
       /\ IF m_supports_bypass'
            THEN m_mode' = BYPASS
            ELSE UNCHANGED << m_mode, m_last_erased_addr, hw_mode, hw_busy,
                             hw_target, hw_bypass, flash >>]_vars

\* unlock_bypass has just returned on a chip without bypass mode that the
\* controller believes, rightly, to be in AUTOSELECT.
C22_Witness ==
  /\ chip_ret.op = "unlock_bypass"
  /\ ~m_supports_bypass /\ ~hw_bypass
  /\ m_mode = AUTOSELECT /\ hw_mode = AUTOSELECT

\* C23: get_manufacturer_id, get_device_id and get_block_protection each
\* leave the belief mode at AUTOSELECT when called in READ, AUTOSELECT or
\* BYPASS.
C23_QueriesLeaveAutoselect ==
  [][(/\ chip_ret'.op \in {"get_manufacturer_id", "get_device_id",
                           "get_block_protection"}
      /\ m_mode # ERASE) => m_mode' = AUTOSELECT]_vars

\* get_block_protection has just returned its metadata word on a
\* controller that had probed bypass support and sent a block erase.
C23_Witness ==
  /\ chip_ret.op = "get_block_protection" /\ chip_ret.val = "metadata"
  /\ m_mode = AUTOSELECT /\ hw_mode = AUTOSELECT
  /\ m_supports_bypass
  /\ m_last_erased_addr # 0

\* C24: a pass leaves untouched every entry whose device it enumerated:
\* the entry (id, vendor and product id, strings, handle, transport,
\* claimed flag) is the same after the pass, its transport is alive and
\* its handle reference is kept, whatever the pass adds or retires.
C24_VisibleEntryUntouched ==
  [][\A r \in Refreshers : PassBy(r) =>
       \A id \in DOMAIN m_connected_devices :
          m_connected_devices[id].device \in Enumerated(r) =>
             /\ id \in DOMAIN m_connected_devices'
             /\ m_connected_devices'[id] = m_connected_devices[id]
             /\ m_connected_devices[id].linkmasta \in heap
             /\ m_connected_devices[id].linkmasta \in heap'
             /\ refs'[m_connected_devices[id].device] =
                  refs[m_connected_devices[id].device]]_vars

\* A pass has just ended that enumerated the device of entry 1, which is
\* unclaimed, in a registry from which entry 0 has been retired.
C24_Witness ==
  \E r \in Refreshers : PassDone(r) /\
     /\ 0 \notin DOMAIN m_connected_devices
     /\ 1 \in DOMAIN m_connected_devices
     /\ ~m_connected_devices[1].claimed
     /\ m_connected_devices[1].device \in Enumerated(r)

\* C25: when the delete of a doomed entry's transport raises, the pass
\* still erases that entry, destroys the object and drops its handle
\* reference once, handles every other entry as it would have without the
\* error, and releases the registry lock; the release of the library lock
\* is its next step.
C25_TeardownErrorSwallowed ==
  /\ [](\A r \in Refreshers : (PassDone(r) /\ locals[r].caught) =>
          ENABLED refresh_device_list_free(r))
  /\ [][\A r \in Refreshers : (PassBy(r) /\ locals'[r].caught) =>
         LET quiet == Reconcile([devices |-> m_connected_devices,
                                 heap |-> heap, refs |-> refs],
                                locals[r], {})
         IN  /\ m_connected_devices' = quiet.devices
             /\ heap' = quiet.heap
             /\ refs' = quiet.refs
             /\ \A id \in DOMAIN m_connected_devices :
                   m_connected_devices[id].linkmasta
                       \in Doomed(m_connected_devices, locals[r]) =>
                      /\ id \notin DOMAIN m_connected_devices'
                      /\ m_connected_devices[id].linkmasta \notin heap'
                      /\ refs'[m_connected_devices[id].device] =
                           refs[m_connected_devices[id].device] - 1
             /\ m_connected_devices_mutex' = NoThread
             /\ m_libusb_mutex' = r]_vars

\* A pass has just swallowed a teardown error and retired the entry, and
\* an entry it enumerated is still registered.
C25_Witness ==
  \E r \in Refreshers :
     /\ PassDone(r) /\ locals[r].caught
     /\ \E id \in DOMAIN m_connected_devices :
           m_connected_devices[id].device \in Enumerated(r)
     /\ Cardinality(heap) = Cardinality(DOMAIN m_connected_devices)

\* A step with which thread t, holding a lock, goes on: a caller finishes
\* the operation it is in (all of them wait for nothing once the lock is
\* taken), a pass or the destructor takes its next step. The pass over
\* the registry itself waits for nothing: its guard is its position.
HolderStep(t) ==
  IF t \in Clients
    THEN \/ get_connected_devices(t)
         \/ try_get_connected_devices_locked(t)
  ELSE IF t \in Refreshers
    THEN \/ refresh_device_list_enumerate(t)
         \/ refresh_device_list_lock_devices(t)
         \/ refresh_device_list_free(t)
  ELSE \/ dtor_lock_devices
       \/ dtor_destroy

\* Thread t is outside every operation of the manager.
Outside(t) == pc[t] \in {"idle", "stopped", "done"}

\* C27: a thread outside the manager's operations holds neither lock (every
\* exit path, the not-found one included, has released what it took); the
\* registry lock is taken by a pass or the destructor only while holding
\* the library lock, and a caller never takes the library lock; the holder
\* of the registry lock can always take its next step, and so can the
\* holder of the library lock unless it waits for the registry lock.
C27_DeadlockFree ==
  /\ \A t \in Threads :
        Outside(t) => /\ m_connected_devices_mutex # t
                      /\ m_libusb_mutex # t
  /\ m_libusb_mutex \notin Clients
  /\ m_connected_devices_mutex \in Refreshers \cup {Dtor} =>
        m_libusb_mutex = m_connected_devices_mutex
  /\ \A t \in Threads : m_connected_devices_mutex = t =>
        IF t \in Refreshers THEN pc[t] = "devices_locked"
                            ELSE ENABLED HolderStep(t)
  /\ \A t \in Threads : m_libusb_mutex = t =>
        \/ m_connected_devices_mutex = t
        \/ ENABLED HolderStep(t)
        \/ m_connected_devices_mutex \in Clients

\* The destructor waits for the library lock, which a pass holds while it
\* waits for the registry lock, which a caller holds over a registry with
\* a claimed entry.
C27_Witness ==
  /\ pc[Dtor] = "stopped"
  /\ \E r \in Refreshers : pc[r] = "enumerated" /\ m_libusb_mutex = r
  /\ m_connected_devices_mutex \in Clients
  /\ \E id \in DOMAIN m_connected_devices : m_connected_devices[id].claimed

\* C30: a pass whose enumeration failed (num_devices < 0) retires no entry:
\* the registry, the transports and the handle references are the same
\* after the pass as before it.
C30_FailedEnumerationRetiresNothing ==
  [][\A r \in Refreshers : (PassBy(r) /\ locals[r].num_devices < 0) =>
       /\ m_connected_devices' = m_connected_devices
       /\ heap' = heap
       /\ refs' = refs]_vars

\* C28: a caller of the manager never uses a transport after the manager
\* destroyed it: wherever a handler of the main window works through the
\* linkmasta pointer it got from get_linkmasta_device, the object is still
\* the live transport of the entry it was taken from.
C28_TransportAliveWhenUsed ==
  \A c \in Clients :
    UsesLinkmasta(c) =>
      /\ gui[c].linkmasta \in heap
      /\ Found(m_connected_devices, gui[c].device_index)
      /\ m_connected_devices[gui[c].device_index].linkmasta
           = gui[c].linkmasta

\* C29: a slot that won the claim in PRE_ACTION has released it when it is
\* left, whatever its task ended in: a step that takes a caller from the
\* task or from POST_ACTION out of the slot leaves the device it claimed
\* unclaimed.
C29_ActionReleasesClaim ==
  [][\A c \in Clients :
       (gui[c].at \in {"task", "post"} /\ gui'[c].at = "idle") =>
         (Found(m_connected_devices', gui[c].device_index) =>
            ~m_connected_devices'[gui[c].device_index].claimed)]_vars

\* C26: a caller inside a claim loop, while (!try_claim_device(id)), leaves
\* the loop in the end, with the claim or with the exception for an
\* unknown id, when every holder releases and scheduling is fair, other
\* callers looping on the same id included.
C26_ClaimLoopEnds ==
  \A c \in Clients : Spinning(c) ~> ~Spinning(c)

====
